---- MODULE Spec2Model ----
(***************************************************************************)
(* gemmi: read an mmCIF block into a Structure.                            *)
(*                                                                         *)
(* Model of gemmi::mol::get_anisotropic_u and                              *)
(* gemmi::mol::structure_from_cif_block (include/gemmi/mmcif.hh).          *)
(* One action per loop iteration of the function; the tables of the block  *)
(* are read row by row, so the tables seen so far are kept in the state.   *)
(* Floating-point values are modelled by integers, cell texts by strings,  *)
(* a char by a string of length <= 1 ("" is the NUL character).            *)
(* Pointers into std::vector are 1-based indices, 0 is nullptr.            *)
(***************************************************************************)
EXTENDS Integers, Sequences, FiniteSets, TLC

\* Bound: the total number of rows of all tables of the block.
MaxRows == 3

(***************************************************************************)
(* cif.hh / numb.hh: cell access (not part of mmcif.hh)                    *)
(***************************************************************************)
\* Residue::UnknownId
UnknownId == -1000

\* value of an anisotropic component that was never assigned
NoAniso == -1

\* the decimal texts the cells use; Numerals[i] is the text of i-1
Numerals == <<"0", "1", "2", "3", "4", "5", "6", "7", "8", "9", "10", "11">>

\* cif::is_null: the two "no value" markers
is_null(s) == s \in {"?", "."}

\* result of a parse: a value, or the exception thrown
Parsed(v) == [ok |-> TRUE, val |-> v]
ParseError == [ok |-> FALSE, val |-> 0]

parse_decimal(s) ==
  IF \E i \in 1..Len(Numerals) : Numerals[i] = s
  THEN Parsed((CHOOSE i \in 1..Len(Numerals) : Numerals[i] = s) - 1)
  ELSE ParseError

\* cif::as_number(s): a null cell is 0.0, an unparsable one throws
as_number(s) == IF is_null(s) THEN Parsed(0) ELSE parse_decimal(s)

\* cif::as_number(s, dflt): a null cell is dflt
as_number_or(s, dflt) == IF is_null(s) THEN Parsed(dflt) ELSE parse_decimal(s)

\* cif::as_int(s, dflt): a cell that is null or no integer is dflt
as_int_or(s, dflt) ==
  IF is_null(s) \/ ~parse_decimal(s).ok THEN dflt ELSE parse_decimal(s).val

\* cif::as_int(s)
as_int(s) == IF is_null(s) THEN ParseError ELSE parse_decimal(s)

\* cif::as_string(s): a null cell is the empty string
as_string(s) == IF is_null(s) THEN "" ELSE s

\* std::string::size() of the cell texts in use
size(s) == CASE s = "" -> 0
             [] s \in {"AB"} -> 2
             [] s \in {"ALA", "HOH"} -> 3
             [] s \in {"10", "11"} -> 2
             [] OTHER -> 1

\* s[0] of a std::string: its first character, NUL for the empty string
first_char(s) == CASE s = "" -> ""
                   [] s = "AB" -> "A"
                   [] OTHER -> s

(***************************************************************************)
(* The input block: the rows the tables may hold                           *)
(***************************************************************************)
\* _atom_site_anisotrop: id and the six U cells
AnisoCells == { <<"1", "2", "3", "4", "5", "6">>,
                <<"0", "?", "3", ".", "5", "6">>,
                <<"1", "2", "x", "4", "5", "6">> }
AnisoRows == { <<id>> \o u : id \in {"1", "2"}, u \in AnisoCells }

\* _atom_site: the 17 fields of the enum at mmcif.hh:87
BaseRow == [kId |-> "1", kSymbol |-> "C", kAtomId |-> "CA", kAltId |-> ".",
            kCompId |-> "ALA", kAsymId |-> "A", kSeqId |-> "1",
            kInsCode |-> "?", kX |-> "1", kY |-> "2", kZ |-> "3",
            kOcc |-> "0", kBiso |-> "2", kCharge |-> "1",
            kAuthSeqId |-> "10", kAuthAsymId |-> "A", kModelNum |-> "1"]

\* rows that differ from BaseRow in the model number and the chain label
GroupRows == { [BaseRow EXCEPT !.kModelNum = m, !.kAsymId = a] :
                 m \in {"1", "2"}, a \in {"A", "B"} }

\* rows that differ from BaseRow in the fields that identify the residue
ResidueRows ==
  { [BaseRow EXCEPT !.kSeqId = s, !.kAuthSeqId = n, !.kInsCode = i] :
      s \in {".", "1"}, n \in {"10", "11"}, i \in {"?", "A"} }
  \cup { [BaseRow EXCEPT !.kCompId = "HOH"],
         [BaseRow EXCEPT !.kInsCode = "AB", !.kSeqId = "."] }

\* rows that differ from BaseRow in the fields copied into the Atom
ValueRows ==
  { [BaseRow EXCEPT !.kId = "2", !.kAltId = "A", !.kAuthAsymId = "X",
                     !.kOcc = "?", !.kBiso = ".", !.kCharge = "?"],
    [BaseRow EXCEPT !.kX = "x"],
    [BaseRow EXCEPT !.kY = "x"],
    [BaseRow EXCEPT !.kZ = "x"],
    [BaseRow EXCEPT !.kAltId = "AB"] }

AtomRows == GroupRows \cup ResidueRows \cup ValueRows

\* the rows used where the steps after the atom loop are explored: those that
\* make models and chains, one whose assert fails, those that throw
FewAtomRows ==
  GroupRows
  \cup { [BaseRow EXCEPT !.kAuthSeqId = "11"],
         [BaseRow EXCEPT !.kX = "x"],
         [BaseRow EXCEPT !.kY = "x"],
         [BaseRow EXCEPT !.kZ = "x"] }

\* _entity: id and type
EntityRows == { <<id, t>> : id \in {"1", "2"}, t \in {"polymer", "water", "junk"} }

\* _entity_poly_seq: entity_id, num and mon_id
PolySeqRows == { <<id, n, "ALA">> : id \in {"1", "2"}, n \in {"1", "?"} }

\* _struct_asym: id and entity_id
StructAsymRows == { <<a, id>> : a \in {"A", "B"}, id \in {"1", "2"} }

RECURSIVE SeqsUpTo(_, _)
SeqsUpTo(S, n) ==
  IF n = 0 THEN { <<>> }
  ELSE LET shorter == SeqsUpTo(S, n - 1)
       IN shorter \cup { Append(s, x) : s \in shorter, x \in S }

\* what block.find("_struct_asym.", ...) may return: no table, or its rows
StructAsymTables ==
  { [ok |-> FALSE, rows |-> <<>>] }
  \cup { [ok |-> TRUE, rows |-> s] : s \in SeqsUpTo(StructAsymRows, MaxRows) }

(***************************************************************************)
(* model.hh: the containers (not part of mmcif.hh)                         *)
(***************************************************************************)
\* index of the first element that passes Test, 0 when there is none
find_first(s, Test(_)) ==
  IF \E i \in 1..Len(s) : Test(s[i])
  THEN CHOOSE i \in 1..Len(s) : Test(s[i]) /\ \A j \in 1..(i - 1) : ~Test(s[j])
  ELSE 0

NewModel(name) == [name |-> name, chains |-> <<>>]
NewChain(name) == [name |-> name, auth_name |-> "", entity |-> 0,
                   residues |-> <<>>]
NewResidue(seq_id, auth_seq_id, ins_code, name) ==
  [seq_id |-> seq_id, auth_seq_id |-> auth_seq_id, ins_code |-> ins_code,
   name |-> name, atoms |-> <<>>]
NewEntity(id, etype) == [id |-> id, type |-> etype, sequence |-> <<>>]

\* a default-constructed Atom
NewAtom == [name |-> "", altloc |-> "", charge |-> 0, element |-> "",
            pos |-> <<0, 0, 0>>, occ |-> 1, b_iso |-> 50,
            u11 |-> NoAniso, u22 |-> NoAniso, u33 |-> NoAniso,
            u12 |-> NoAniso, u13 |-> NoAniso, u23 |-> NoAniso]

\* find_or_add_*: the list after the call and the pointer returned
Found(list, ptr) == [list |-> list, ptr |-> ptr]

find_or_add_model(models, name) ==
  LET Test(m) == m.name = name
      i == find_first(models, Test)
  IN IF i # 0 THEN Found(models, i)
     ELSE Found(Append(models, NewModel(name)), Len(models) + 1)

find_or_add_chain(chains, name) ==
  LET Test(c) == c.name = name
      i == find_first(chains, Test)
  IN IF i # 0 THEN Found(chains, i)
     ELSE Found(Append(chains, NewChain(name)), Len(chains) + 1)

find_or_add_residue(residues, seq_id, auth_seq_id, ins_code, name) ==
  LET Test(r) == /\ r.seq_id = seq_id
                 /\ r.auth_seq_id = auth_seq_id
                 /\ r.ins_code = ins_code
                 /\ r.name = name
      i == find_first(residues, Test)
  IN IF i # 0 THEN Found(residues, i)
     ELSE Found(Append(residues, NewResidue(seq_id, auth_seq_id, ins_code, name)),
                Len(residues) + 1)

find_or_add_entity(entities, id) ==
  LET Test(e) == e.id = id
      i == find_first(entities, Test)
  IN IF i # 0 THEN Found(entities, i)
     ELSE Found(Append(entities, NewEntity(id, "Unknown")), Len(entities) + 1)

entity_type_from_string(t) ==
  CASE t = "polymer" -> "Polymer"
    [] t = "non-polymer" -> "NonPolymer"
    [] t = "water" -> "Water"
    [] OTHER -> "Unknown"

\* TableView::find_row: the first row whose first cell is s, or an exception
find_row(tab, s) ==
  LET Test(r) == r[1] = s
      i == find_first(tab.rows, Test)
  IN IF tab.ok /\ i # 0 THEN [ok |-> TRUE, row |-> tab.rows[i]]
     ELSE [ok |-> FALSE, row |-> <<>>]

(***************************************************************************)
(* mmcif.hh: state of structure_from_cif_block                             *)
(***************************************************************************)
VARIABLES
  pc,              \* "aniso", "atoms", "resolve", "done": where the function is;
                   \* "thrown": left by an exception; "aborted": assert failed
  ndebug,          \* TRUE once the build is known to define NDEBUG: both
                   \* builds behave alike until an assert fails
  aniso_tab,       \* rows of _atom_site_anisotrop read so far
  aniso_map,       \* the map built by get_anisotropic_u
  atom_table,      \* rows of _atom_site read so far
  st,              \* the Structure under construction: models and entities
  model,           \* Model *model
  chain,           \* Chain *chain
  resi,            \* Residue *resi
  entity_tab,      \* rows of _entity read so far
  poly_seq_tab,    \* rows of _entity_poly_seq read so far
  chain_to_entity, \* the _struct_asym table once looked up
  finished,        \* the steps of the entity resolution that are over
  visited,         \* number of chains the chain-linkage loop has visited
  steps,           \* the loop iterations of lines 158-178 in the order taken
  returned,        \* <<>>, or <<st>> once the function has returned st
  fmt              \* sprintf.hpp: the call of a formatter and what it gave

vars == <<pc, ndebug, aniso_tab, aniso_map, atom_table, st, model, chain, resi,
          entity_tab, poly_seq_tab, chain_to_entity, finished, visited,
          steps, returned, fmt>>

NoTable == [ok |-> FALSE, rows |-> <<>>]

\* no formatter has been called, and the number 0.0
Zero == [neg |-> FALSE, digs |-> <<>>, exp |-> 0]
NoCall == [pc |-> "idle", fn |-> "", d |-> Zero, prec |-> 0, text |-> <<>>,
           written |-> 0, buf |-> 0]
EmptyMap == [id \in {} |-> <<>>]

\* number of rows of the block read so far
RowsRead == Len(aniso_tab) + Len(atom_table) + Len(entity_tab)
            + Len(poly_seq_tab) + Len(chain_to_entity.rows)

Init ==
  /\ pc = "aniso"
  /\ ndebug = FALSE
  /\ aniso_tab = <<>>
  /\ aniso_map = EmptyMap
  /\ atom_table = <<>>
  /\ st = [models |-> <<>>, entities |-> <<>>]
  /\ model = 0
  /\ chain = 0
  /\ resi = 0
  /\ entity_tab = <<>>
  /\ poly_seq_tab = <<>>
  /\ chain_to_entity = NoTable
  /\ finished = {}
  /\ visited = 0
  /\ steps = <<>>
  /\ returned = <<>>
  /\ fmt = NoCall

(***************************************************************************)
(* get_anisotropic_u, mmcif.hh:19-33                                       *)
(***************************************************************************)
\* the six components of one row, or the exception of as_number
AnisoValues(ani) ==
  LET u == [k \in 1..6 |-> as_number(ani[k + 1])]
  IN IF \A k \in 1..6 : u[k].ok
     THEN [ok |-> TRUE, val |-> [k \in 1..6 |-> u[k].val]]
     ELSE [ok |-> FALSE, val |-> <<>>]

\* aniso_map[ani[0]] = {...}
AnisoInsert(map, ani) ==
  [id \in DOMAIN map \cup {ani[1]} |->
     IF id = ani[1] THEN AnisoValues(ani).val ELSE map[id]]

AnisoRow(ani) ==
  /\ pc = "aniso"
  /\ RowsRead < MaxRows
  /\ aniso_tab' = Append(aniso_tab, ani)
  /\ IF AnisoValues(ani).ok
     THEN /\ aniso_map' = AnisoInsert(aniso_map, ani)
          /\ pc' = pc
     ELSE /\ aniso_map' = aniso_map
          /\ pc' = "thrown"
  /\ UNCHANGED <<fmt, ndebug, atom_table, st, model, chain, resi, entity_tab,
                 poly_seq_tab, chain_to_entity, finished, visited, steps,
                 returned>>

\* return aniso_map; the atom loop follows
AnisoEnd ==
  /\ pc = "aniso"
  /\ pc' = "atoms"
  /\ UNCHANGED <<fmt, ndebug, aniso_tab, aniso_map, atom_table, st, model, chain,
                 resi, entity_tab, poly_seq_tab, chain_to_entity, finished,
                 visited, steps, returned>>

(***************************************************************************)
(* the atom loop, mmcif.hh:107-156                                         *)
(***************************************************************************)
\* the builder: the structure and the three cursors
Builder(s, m, c, r) == [st |-> s, model |-> m, chain |-> c, resi |-> r]

Chains(b) == b.st.models[b.model].chains
Residues(b) == Chains(b)[b.chain].residues

\* lines 111-114 with the model looked up for the first row only
SelectModel_FirstOnly(b, row) ==
  IF b.model = 0
  THEN LET f == find_or_add_model(b.st.models, row.kModelNum)
       IN [b EXCEPT !.st.models = f.list, !.model = f.ptr, !.chain = 0]
  ELSE b

\* lines 111-114
SelectModel(b, row) ==
  IF b.model = 0 \/ row.kModelNum # b.st.models[b.model].name
  THEN LET f == find_or_add_model(b.st.models, row.kModelNum)
       IN [b EXCEPT !.st.models = f.list, !.model = f.ptr, !.chain = 0]
  ELSE b

\* lines 115-119 with a chain appended without a scan of the list
SelectChain_AlwaysAppend(b, row) ==
  IF b.chain = 0 \/ row.kAsymId # b.st.models[b.model].chains[b.chain].name
  THEN [b EXCEPT !.st.models[b.model].chains =
                    Append(@, [NewChain(as_string(row.kAsymId)) EXCEPT
                                 !.auth_name = as_string(row.kAuthAsymId)]),
                 !.chain = Len(b.st.models[b.model].chains) + 1,
                 !.resi = 0]
  ELSE b

\* lines 115-119 with line 117 assigning to name instead of auth_name
SelectChain_Renames(b, row) ==
  IF b.chain = 0 \/ row.kAsymId # b.st.models[b.model].chains[b.chain].name
  THEN LET f == find_or_add_chain(b.st.models[b.model].chains,
                                  as_string(row.kAsymId))
       IN [b EXCEPT !.st.models[b.model].chains =
                       [f.list EXCEPT ![f.ptr].name =
                                         as_string(row.kAuthAsymId)],
                    !.chain = f.ptr,
                    !.resi = 0]
  ELSE b

\* lines 115-119
SelectChain(b, row) ==
  IF b.chain = 0 \/ row.kAsymId # Chains(b)[b.chain].name
  THEN LET f == find_or_add_chain(Chains(b), as_string(row.kAsymId))
       IN [b EXCEPT !.st.models[b.model].chains =
                       [f.list EXCEPT ![f.ptr].auth_name =
                                         as_string(row.kAuthAsymId)],
                    !.chain = f.ptr,
                    !.resi = 0]
  ELSE b

\* lines 120-122
SeqId(row) == as_int_or(row.kSeqId, UnknownId)
AuthSeqId(row) == as_int_or(row.kAuthSeqId, UnknownId)
InsCode(row) == first_char(as_string(row.kInsCode))

\* lines 123-125 without the comparison of the residue name
ResidueChanges_NoName(b, row) ==
  \/ b.resi = 0
  \/ SeqId(row) # b.st.models[b.model].chains[b.chain].residues[b.resi].seq_id
  \/ /\ SeqId(row) = UnknownId
     /\ \/ b.st.models[b.model].chains[b.chain].residues[b.resi].auth_seq_id
             # AuthSeqId(row)
        \/ b.st.models[b.model].chains[b.chain].residues[b.resi].ins_code
             # InsCode(row)

\* lines 123-125 without the test of the author fields
ResidueChanges_SeqOnly(b, row) ==
  \/ b.resi = 0
  \/ SeqId(row) # b.st.models[b.model].chains[b.chain].residues[b.resi].seq_id
  \/ row.kCompId # b.st.models[b.model].chains[b.chain].residues[b.resi].name

\* the condition of lines 123-125
ResidueChanges(b, row) ==
  \/ b.resi = 0
  \/ SeqId(row) # Residues(b)[b.resi].seq_id
  \/ row.kCompId # Residues(b)[b.resi].name
  \/ /\ SeqId(row) = UnknownId
     /\ \/ Residues(b)[b.resi].auth_seq_id # AuthSeqId(row)
        \/ Residues(b)[b.resi].ins_code # InsCode(row)

\* the assert of line 127 or of line 131, whichever the row reaches
AssertHolds(b, row) ==
  IF ResidueChanges(b, row)
  THEN size(row.kInsCode) = 1
  ELSE /\ Residues(b)[b.resi].auth_seq_id = AuthSeqId(row)
       /\ Residues(b)[b.resi].ins_code = InsCode(row)

\* lines 123-132, the asserts aside
SelectResidue(b, row) ==
  IF ResidueChanges(b, row)
  THEN LET f == find_or_add_residue(Residues(b), SeqId(row), AuthSeqId(row),
                                    InsCode(row), as_string(row.kCompId))
       IN [b EXCEPT !.st.models[b.model].chains[b.chain].residues = f.list,
                    !.resi = f.ptr]
  ELSE b

\* line 136 without the test for a null cell
Charge_NoNullCheck(row) == as_int(row.kCharge)

\* line 136
Charge(row) == IF is_null(row.kCharge) THEN Parsed(0) ELSE as_int(row.kCharge)

\* lines 144-154 with the indices of u12 and u13 exchanged
SetAniso_Swapped(atom, map, row) ==
  IF DOMAIN map # {}
  THEN IF row.kId \in DOMAIN map
       THEN [atom EXCEPT !.u11 = map[row.kId][1], !.u22 = map[row.kId][2],
                         !.u33 = map[row.kId][3], !.u12 = map[row.kId][5],
                         !.u13 = map[row.kId][4], !.u23 = map[row.kId][6]]
       ELSE atom
  ELSE atom

\* lines 144-154
SetAniso(atom, map, row) ==
  IF DOMAIN map # {}
  THEN IF row.kId \in DOMAIN map
       THEN [atom EXCEPT !.u11 = map[row.kId][1], !.u22 = map[row.kId][2],
                         !.u33 = map[row.kId][3], !.u12 = map[row.kId][4],
                         !.u13 = map[row.kId][5], !.u23 = map[row.kId][6]]
       ELSE atom
  ELSE atom

\* lines 133-154 with a coordinate that does not parse read as a number
\* instead of an exception
MakeAtom_NoThrow(map, row) ==
  [ok |-> TRUE,
   atom |-> SetAniso([NewAtom EXCEPT
                        !.name = as_string(row.kAtomId),
                        !.altloc = first_char(as_string(row.kAltId)),
                        !.charge = Charge(row).val,
                        !.element = as_string(row.kSymbol),
                        !.pos = <<as_number(row.kX).val, as_number(row.kY).val,
                                  as_number(row.kZ).val>>,
                        !.occ = as_number_or(row.kOcc, 1).val,
                        !.b_iso = as_number_or(row.kBiso, 50).val],
                     map, row)]

\* lines 133-154: the Atom of a row, or the exception of a conversion
MakeAtom(map, row) ==
  LET charge == Charge(row)
      x == as_number(row.kX)
      y == as_number(row.kY)
      z == as_number(row.kZ)
      occ == as_number_or(row.kOcc, 1)
      b_iso == as_number_or(row.kBiso, 50)
  IN IF charge.ok /\ x.ok /\ y.ok /\ z.ok /\ occ.ok /\ b_iso.ok
     THEN [ok |-> TRUE,
           atom |-> SetAniso([NewAtom EXCEPT
                                !.name = as_string(row.kAtomId),
                                !.altloc = first_char(as_string(row.kAltId)),
                                !.charge = charge.val,
                                !.element = as_string(row.kSymbol),
                                !.pos = <<x.val, y.val, z.val>>,
                                !.occ = occ.val,
                                !.b_iso = b_iso.val],
                             map, row)]
     ELSE [ok |-> FALSE, atom |-> NewAtom]

\* line 155 putting the atom in front of the atoms of the residue
AddAtom_Front(b, atom) ==
  [b EXCEPT !.st.models[b.model].chains[b.chain].residues[b.resi].atoms =
              <<atom>> \o @]

\* line 155
AddAtom(b, atom) ==
  [b EXCEPT !.st.models[b.model].chains[b.chain].residues[b.resi].atoms =
              Append(@, atom)]

\* one iteration of the loop of line 110
AtomRow(row) ==
  /\ pc = "atoms"
  /\ RowsRead < MaxRows
  /\ atom_table' = Append(atom_table, row)
  /\ LET b0 == SelectChain(SelectModel(Builder(st, model, chain, resi), row), row)
         b1 == SelectResidue(b0, row)
         a == MakeAtom(aniso_map, row)
         b2 == IF a.ok THEN AddAtom(b1, a.atom) ELSE b1
     IN \/ \* a failed assert aborts, unless the build defines NDEBUG
           /\ ~AssertHolds(b0, row)
           /\ ~ndebug
           /\ pc' = "aborted"
           /\ ndebug' = ndebug
           /\ st' = b0.st
           /\ model' = b0.model
           /\ chain' = b0.chain
           /\ resi' = b0.resi
        \/ /\ pc' = IF a.ok THEN pc ELSE "thrown"
           /\ ndebug' = (ndebug \/ ~AssertHolds(b0, row))
           /\ st' = b2.st
           /\ model' = b2.model
           /\ chain' = b2.chain
           /\ resi' = b2.resi
  /\ UNCHANGED <<fmt, aniso_tab, aniso_map, entity_tab, poly_seq_tab,
                 chain_to_entity, finished, visited, steps, returned>>

\* the loop of line 110 is over
AtomEnd ==
  /\ pc = "atoms"
  /\ pc' = "resolve"
  /\ UNCHANGED <<fmt, ndebug, aniso_tab, aniso_map, atom_table, st, model, chain,
                 resi, entity_tab, poly_seq_tab, chain_to_entity, finished,
                 visited, steps, returned>>

(***************************************************************************)
(* entity list, polymer sequences, chain linkage: mmcif.hh:158-181         *)
(***************************************************************************)
Resolution == {"entity", "poly_seq", "struct_asym"}

RECURSIVE AllChains(_, _)
\* the chains in the order of the loops of lines 171-172, as <<model, chain>>
AllChains(models, m) ==
  IF m > Len(models) THEN <<>>
  ELSE [c \in 1..Len(models[m].chains) |-> <<m, c>>] \o AllChains(models, m + 1)

\* lines 159-161
AddEntity(s, row) ==
  [s EXCEPT !.entities =
     Append(@, NewEntity(as_string(row[1]),
                         entity_type_from_string(as_string(row[2]))))]

\* lines 166-167 with the pair put in front of the sequence
AddPolySeq_Front(s, row) ==
  LET f == find_or_add_entity(s.entities, as_string(row[1]))
  IN [s EXCEPT !.entities =
        [f.list EXCEPT ![f.ptr].sequence =
           <<<<as_int_or(row[2], -1), as_string(row[3])>>>> \o @]]

\* lines 166-167 with the Entity appended as line 161 does, without a search
AddPolySeq_AlwaysAppend(s, row) ==
  [s EXCEPT !.entities =
     Append(@, [NewEntity(as_string(row[1]), "Unknown") EXCEPT
                  !.sequence = <<<<as_int_or(row[2], -1), as_string(row[3])>>>>])]

\* lines 166-167
AddPolySeq(s, row) ==
  LET f == find_or_add_entity(s.entities, as_string(row[1]))
  IN [s EXCEPT !.entities =
        [f.list EXCEPT ![f.ptr].sequence =
           Append(@, <<as_int_or(row[2], -1), as_string(row[3])>>)]]

\* lines 173-178 with an Entity appended for every chain that has a row
LinkChainTo_AlwaysAppend(s, tab, at) ==
  LET found == find_row(tab, s.models[at[1]].chains[at[2]].name)
  IN IF found.ok
     THEN [s EXCEPT !.entities =
                      Append(@, NewEntity(as_string(found.row[2]), "Unknown")),
                    !.models[at[1]].chains[at[2]].entity =
                      Len(s.entities) + 1]
     ELSE [s EXCEPT !.models[at[1]].chains[at[2]].entity = 0]

\* lines 173-178 for the chain at position at = <<model, chain>>
LinkChainTo(s, tab, at) ==
  LET found == find_row(tab, s.models[at[1]].chains[at[2]].name)
  IN IF found.ok
     THEN LET f == find_or_add_entity(s.entities, as_string(found.row[2]))
          IN [s EXCEPT !.entities = f.list,
                       !.models[at[1]].chains[at[2]].entity = f.ptr]
     ELSE [s EXCEPT !.models[at[1]].chains[at[2]].entity = 0]

\* one iteration of the loop of line 158
EntityStep(row) ==
  /\ pc = "resolve"
  /\ RowsRead < MaxRows
  /\ entity_tab' = Append(entity_tab, row)
  /\ st' = AddEntity(st, row)
  /\ steps' = Append(steps, "entity")
  /\ UNCHANGED <<fmt, pc, ndebug, aniso_tab, aniso_map, atom_table, model, chain,
                 resi, poly_seq_tab, chain_to_entity, finished, visited,
                 returned>>

\* one iteration of the loop of line 164
PolySeqStep(row) ==
  /\ pc = "resolve"
  /\ RowsRead < MaxRows
  /\ poly_seq_tab' = Append(poly_seq_tab, row)
  /\ st' = AddPolySeq(st, row)
  /\ steps' = Append(steps, "poly_seq")
  /\ UNCHANGED <<fmt, pc, ndebug, aniso_tab, aniso_map, atom_table, model, chain,
                 resi, entity_tab, chain_to_entity, finished, visited,
                 returned>>

\* a loop, or the lookup of line 170, is over
StepOver(step) ==
  /\ pc = "resolve"
  /\ finished' = finished \cup {step}
  /\ UNCHANGED <<fmt, pc, ndebug, aniso_tab, aniso_map, atom_table, st, model,
                 chain, resi, entity_tab, poly_seq_tab, chain_to_entity,
                 visited, steps, returned>>

\* line 170
FindStep(tab) ==
  /\ pc = "resolve"
  /\ RowsRead + Len(tab.rows) <= MaxRows
  /\ chain_to_entity' = tab
  /\ finished' = finished \cup {"struct_asym"}
  /\ UNCHANGED <<fmt, pc, ndebug, aniso_tab, aniso_map, atom_table, st, model,
                 chain, resi, entity_tab, poly_seq_tab, visited, steps,
                 returned>>

\* lines 171-178 without the try and catch of lines 173-178
LinkStep_NoCatch ==
  /\ pc = "resolve"
  /\ visited < Len(AllChains(st.models, 1))
  /\ LET at == AllChains(st.models, 1)[visited + 1]
     IN IF find_row(chain_to_entity, st.models[at[1]].chains[at[2]].name).ok
        THEN /\ st' = LinkChainTo(st, chain_to_entity, at)
             /\ pc' = pc
        ELSE /\ st' = st
             /\ pc' = "thrown"
  /\ visited' = visited + 1
  /\ steps' = Append(steps, "link")
  /\ UNCHANGED <<fmt, ndebug, aniso_tab, aniso_map, atom_table, model, chain, resi,
                 entity_tab, poly_seq_tab, chain_to_entity, finished,
                 returned>>

\* one iteration of the loops of lines 171-178
LinkStep ==
  /\ pc = "resolve"
  /\ visited < Len(AllChains(st.models, 1))
  /\ st' = LinkChainTo(st, chain_to_entity, AllChains(st.models, 1)[visited + 1])
  /\ visited' = visited + 1
  /\ steps' = Append(steps, "link")
  /\ UNCHANGED <<fmt, pc, ndebug, aniso_tab, aniso_map, atom_table, model, chain,
                 resi, entity_tab, poly_seq_tab, chain_to_entity, finished,
                 returned>>

\* the order of the code: entity list, polymer sequences, chain linkage
EntityRow(row) == finished = {} /\ EntityStep(row)
EntityEnd == finished = {} /\ StepOver("entity")
PolySeqRow(row) == finished = {"entity"} /\ PolySeqStep(row)
PolySeqEnd == finished = {"entity"} /\ StepOver("poly_seq")
FindStructAsym(tab) == finished = {"entity", "poly_seq"} /\ FindStep(tab)
LinkChain == finished = Resolution /\ LinkStep

\* lines 179-180: st.finish(); return st;
Finish ==
  /\ pc = "resolve"
  /\ finished = Resolution
  /\ visited = Len(AllChains(st.models, 1))
  /\ pc' = "done"
  /\ returned' = <<st>>
  /\ UNCHANGED <<fmt, ndebug, aniso_tab, aniso_map, atom_table, st, model, chain,
                 resi, entity_tab, poly_seq_tab, chain_to_entity, finished,
                 visited, steps>>

\* get_anisotropic_u and the atom loop, for every atom row
NextAtoms ==
  \/ \E ani \in AnisoRows : AnisoRow(ani)
  \/ AnisoEnd
  \/ \E row \in AtomRows : AtomRow(row)

SpecAtoms == Init /\ [][NextAtoms]_vars

\* the three passes of lines 158-178 taken in any order, row by row, after
\* the atom loop over rows that make models and chains
EntityRowAny(row) == "entity" \notin finished /\ EntityStep(row)
EntityEndAny == "entity" \notin finished /\ StepOver("entity")
PolySeqRowAny(row) == "poly_seq" \notin finished /\ PolySeqStep(row)
PolySeqEndAny == "poly_seq" \notin finished /\ StepOver("poly_seq")
FindStructAsymAny(tab) == "struct_asym" \notin finished /\ FindStep(tab)
LinkChainAny == "struct_asym" \in finished /\ LinkStep

NextAnyOrder ==
  \/ AnisoEnd
  \/ \E row \in GroupRows : AtomRow(row)
  \/ AtomEnd
  \/ \E row \in EntityRows : EntityRowAny(row)
  \/ EntityEndAny
  \/ \E row \in PolySeqRows : PolySeqRowAny(row)
  \/ PolySeqEndAny
  \/ \E tab \in StructAsymTables : FindStructAsymAny(tab)
  \/ LinkChainAny
  \/ Finish

SpecAnyOrder == Init /\ [][NextAnyOrder]_vars

\* the whole of structure_from_cif_block
Next ==
  \/ \E ani \in AnisoRows : AnisoRow(ani)
  \/ AnisoEnd
  \/ \E row \in FewAtomRows : AtomRow(row)
  \/ AtomEnd
  \/ \E row \in EntityRows : EntityRow(row)
  \/ EntityEnd
  \/ \E row \in PolySeqRows : PolySeqRow(row)
  \/ PolySeqEnd
  \/ \E tab \in StructAsymTables : FindStructAsym(tab)
  \/ LinkChain
  \/ Finish

Spec == Init /\ [][Next]_vars

(***************************************************************************)
(* Properties of the atom loop                                             *)
(***************************************************************************)
\* every row read so far went through the loop body to line 155
RowsDone == pc \notin {"thrown", "aborted"}

\* two rows carry the same residue key: sequence number and name, and the
\* author number and insertion code when the sequence number is unknown
SameResidueKey(r1, r2) ==
  /\ SeqId(r1) = SeqId(r2)
  /\ r1.kCompId = r2.kCompId
  /\ SeqId(r1) = UnknownId =>
       AuthSeqId(r1) = AuthSeqId(r2) /\ InsCode(r1) = InsCode(r2)

SameModel(r1, r2) == r1.kModelNum = r2.kModelNum
SameChain(r1, r2) == SameModel(r1, r2) /\ r1.kAsymId = r2.kAsymId
SameResidue(r1, r2) == SameChain(r1, r2) /\ SameResidueKey(r1, r2)

\* rows that are alike under Same are next to each other
Contiguous(rows, Same(_, _)) ==
  \A i, j \in 1..Len(rows) :
    i < j /\ Same(rows[i], rows[j]) =>
      \A k \in i..j : Same(rows[i], rows[k])

Grouped(rows) ==
  /\ Contiguous(rows, SameModel)
  /\ Contiguous(rows, SameChain)
  /\ Contiguous(rows, SameResidue)

\* the rows that start a run of rows alike under Same
Starts(rows, Same(_, _)) ==
  { i \in 1..Len(rows) : i = 1 \/ ~Same(rows[i - 1], rows[i]) }

\* the k-th smallest member of a set of numbers
Nth(S, k) == CHOOSE i \in S : Cardinality({ j \in S : j <= i }) = k

\* the members of S inside the run of T that starts at i
Inside(S, T, i, n) ==
  { j \in S : j >= i /\ \A t \in T : t > i => j < t }

\* number of rows of the run of T that starts at i
RunLength(T, i, n) == Cardinality(Inside(1..n, T, i, n))

\* the structure has one Model per run of model ids, one Chain per run of
\* chain labels in it, one Residue per run of residue keys in that, and each
\* Residue has as many atoms as its run has rows
OnePerRun(rows, models) ==
  LET n == Len(rows)
      ms == Starts(rows, SameModel)
      cs == Starts(rows, SameChain)
      rs == Starts(rows, SameResidue)
  IN /\ Len(models) = Cardinality(ms)
     /\ \A m \in 1..Len(models) :
          LET mi == Nth(ms, m)
              mcs == Inside(cs, ms, mi, n)
          IN /\ models[m].name = rows[mi].kModelNum
             /\ Len(models[m].chains) = Cardinality(mcs)
             /\ \A c \in 1..Len(models[m].chains) :
                  LET ci == Nth(mcs, c)
                      crs == Inside(rs, cs, ci, n)
                      ch == models[m].chains[c]
                  IN /\ ch.name = rows[ci].kAsymId
                     /\ Len(ch.residues) = Cardinality(crs)
                     /\ \A r \in 1..Len(ch.residues) :
                          Len(ch.residues[r].atoms) = RunLength(rs, Nth(crs, r), n)

\* C1: for every atom-row stream grouped contiguously by model, chain label
\* and residue key that the loop has processed, the structure holds exactly
\* one Model per run of model ids, one Chain per run of chain labels in a
\* model, one Residue per run of residue keys in a chain, and each Residue
\* has as many atoms as its run has rows.
C1_OnePerGroup ==
  RowsDone /\ Grouped(atom_table) => OnePerRun(atom_table, st.models)

\* a grouped stream of three rows: two rows of one residue, and a row of
\* another chain
C1_Witness ==
  /\ RowsDone
  /\ Len(atom_table) = 3
  /\ Grouped(atom_table)
  /\ Cardinality(Starts(atom_table, SameResidue)) = 2
  /\ Cardinality(Starts(atom_table, SameChain)) = 2
  /\ OnePerRun(atom_table, st.models)

\* the loop reads a row right after another one
ReadsNextRow ==
  /\ pc = "atoms"
  /\ Len(atom_table) >= 1
  /\ Len(atom_table') = Len(atom_table) + 1

LastRow == atom_table[Len(atom_table)]
NextRow == atom_table'[Len(atom_table')]

\* the residue the cursors point to
AtCursor(s, m, c, r) == s.models[m].chains[c].residues[r]

\* the step put the atom of the row read into the residue that was open
Merged ==
  /\ pc' = "atoms"
  /\ <<model', chain', resi'>> = <<model, chain, resi>>
  /\ Len(AtCursor(st', model, chain, resi).atoms)
       = Len(AtCursor(st, model, chain, resi).atoms) + 1

\* the step put the atom of the row read into another residue of the chain
\* than the one that was open, which kept its atoms
Split ==
  /\ pc' = "atoms"
  /\ <<model', chain'>> = <<model, chain>>
  /\ resi' # resi
  /\ AtCursor(st', model, chain, resi) = AtCursor(st, model, chain, resi)
  /\ Len(AtCursor(st', model', chain', resi').atoms) >= 1

\* two rows of one chain with the same known sequence number and the same
\* name, and different author numbers or insertion codes
KnownSeqAuthDiffers(r1, r2) ==
  /\ SameChain(r1, r2)
  /\ SeqId(r1) = SeqId(r2)
  /\ SeqId(r1) # UnknownId
  /\ r1.kCompId = r2.kCompId
  /\ AuthSeqId(r1) # AuthSeqId(r2) \/ InsCode(r1) # InsCode(r2)

\* two rows of one chain with unknown sequence number and the same name, and
\* different author numbers or insertion codes
UnknownSeqAuthDiffers(r1, r2) ==
  /\ SameChain(r1, r2)
  /\ SeqId(r1) = UnknownId
  /\ SeqId(r2) = UnknownId
  /\ r1.kCompId = r2.kCompId
  /\ AuthSeqId(r1) # AuthSeqId(r2) \/ InsCode(r1) # InsCode(r2)

\* C2: known sequence number is authoritative: a row that follows a row of
\* the same model and chain with the same known label_seq_id and the same
\* residue name, but another auth_seq_id or insertion code, is processed to
\* the end and its atom is placed in the Residue of the row before it.
C2_KnownSeqMerges ==
  [][ReadsNextRow /\ KnownSeqAuthDiffers(LastRow, NextRow)
        /\ MakeAtom(aniso_map, NextRow).ok
      => Merged]_vars

\* C3: unknown sequence number: a row that follows a row of the same model
\* and chain, both with unknown label_seq_id and the same residue name, and
\* that differs from it in auth_seq_id or in the insertion code, starts
\* another Residue, so the two atoms are in two distinct Residues.
C3_UnknownSeqSplits ==
  [][ReadsNextRow /\ UnknownSeqAuthDiffers(LastRow, NextRow) /\ pc' = "atoms"
      => Split]_vars

\* two such rows processed: the chain has two residues of one atom each
C3_Witness ==
  /\ RowsDone
  /\ Len(atom_table) = 2
  /\ UnknownSeqAuthDiffers(atom_table[1], atom_table[2])
  /\ resi = 2
  /\ Len(st.models[1].chains[1].residues) = 2
  /\ \A r \in 1..2 : Len(st.models[1].chains[1].residues[r].atoms) = 1

\* sum of a sequence of numbers
RECURSIVE SumSeq(_)
SumSeq(s) == IF s = <<>> THEN 0 ELSE Head(s) + SumSeq(Tail(s))

\* number of atoms of a chain, number of chains of a list of models
ChainAtoms(c) == SumSeq([r \in 1..Len(c.residues) |-> Len(c.residues[r].atoms)])
NumChains(models) == SumSeq([m \in 1..Len(models) |-> Len(models[m].chains)])

\* C4: find-or-append matches only the immediately previous group: a model
\* id, chain label or residue key that reappears after other rows gets a
\* second sibling object, so the structure has as many Models, Chains and
\* Residues as the row stream has runs of model ids, chain labels and
\* residue keys.
C4_SiblingPerRun ==
  RowsDone =>
    /\ Len(st.models) = Cardinality(Starts(atom_table, SameModel))
    /\ NumChains(st.models) = Cardinality(Starts(atom_table, SameChain))

\* C4 as amended: find-or-add scans the whole list of the parent, so a model
\* id or a chain label that reappears after other rows gets no sibling: the
\* rows go to the earlier object. The structure has one Model per distinct
\* model id, each Model one Chain per distinct chain label among its rows,
\* and the atoms of all rows with that label; no two Residues of a chain
\* agree in all of sequence number, author number, insertion code and name.
C4_FindsEarlier ==
  RowsDone =>
    LET ids == { atom_table[i].kModelNum : i \in 1..Len(atom_table) }
        RowsOf(id) == { i \in 1..Len(atom_table) : atom_table[i].kModelNum = id }
    IN /\ Len(st.models) = Cardinality(ids)
       /\ \A m \in 1..Len(st.models) :
            LET mod == st.models[m]
                labels == { atom_table[i].kAsymId : i \in RowsOf(mod.name) }
            IN /\ mod.name \in ids
               /\ Len(mod.chains) = Cardinality(labels)
               /\ \A c \in 1..Len(mod.chains) :
                    LET ch == mod.chains[c]
                    IN /\ ch.name \in labels
                       /\ ChainAtoms(ch) =
                            Cardinality({ i \in RowsOf(mod.name) :
                                            atom_table[i].kAsymId = ch.name })
                       /\ \A r1, r2 \in 1..Len(ch.residues) :
                            /\ ch.residues[r1].seq_id = ch.residues[r2].seq_id
                            /\ ch.residues[r1].auth_seq_id = ch.residues[r2].auth_seq_id
                            /\ ch.residues[r1].ins_code = ch.residues[r2].ins_code
                            /\ ch.residues[r1].name = ch.residues[r2].name
                            => r1 = r2

\* rows of chain A, then chain B, then chain A again in one model: the model
\* has two chains and the first one holds the atoms of both rows of chain A
C4_Witness ==
  /\ RowsDone
  /\ Len(atom_table) = 3
  /\ SameModel(atom_table[1], atom_table[2])
  /\ SameModel(atom_table[1], atom_table[3])
  /\ atom_table[1].kAsymId = atom_table[3].kAsymId
  /\ atom_table[1].kAsymId # atom_table[2].kAsymId
  /\ Len(st.models) = 1
  /\ Len(st.models[1].chains) = 2
  /\ ChainAtoms(st.models[1].chains[1]) = 2

\* C5: after any prefix of any atom-row stream no Model has two Chains with
\* the same label.
C5_ChainLabelsUnique ==
  \A m \in 1..Len(st.models) :
    \A c1, c2 \in 1..Len(st.models[m].chains) :
      st.models[m].chains[c1].name = st.models[m].chains[c2].name => c1 = c2

\* a row whose label is not that of the open chain and is found by the scan:
\* the cursor is back on the first chain of a model with two chains
C5_Witness ==
  /\ Len(atom_table) = 3
  /\ model # 0
  /\ Len(st.models[model].chains) = 2
  /\ chain = 1
  /\ atom_table[3].kAsymId = st.models[model].chains[1].name
  /\ atom_table[2].kAsymId = st.models[model].chains[2].name

(***************************************************************************)
(* Properties of the entity resolution                                     *)
(***************************************************************************)
RECURSIVE EntityPass(_, _)
\* the loop of lines 158-162 over rows
EntityPass(s, rows) ==
  IF rows = <<>> THEN s ELSE EntityPass(AddEntity(s, Head(rows)), Tail(rows))

RECURSIVE PolySeqPass(_, _)
\* the loop of lines 164-168 over rows
PolySeqPass(s, rows) ==
  IF rows = <<>> THEN s ELSE PolySeqPass(AddPolySeq(s, Head(rows)), Tail(rows))

RECURSIVE LinkPass(_, _, _)
\* the loops of lines 171-178 over the chains at the positions given
LinkPass(s, tab, chains) ==
  IF chains = <<>> THEN s
  ELSE LinkPass(LinkChainTo(s, tab, Head(chains)), tab, Tail(chains))

\* the models as the atom loop left them: no chain has an entity
Unlinked(models) ==
  [m \in 1..Len(models) |->
     [models[m] EXCEPT !.chains =
        [c \in 1..Len(models[m].chains) |->
           [models[m].chains[c] EXCEPT !.entity = 0]]]]

\* what lines 158-178 make of the tables read, in the order of the code
InCodeOrder ==
  LinkPass(PolySeqPass(EntityPass([models |-> Unlinked(st.models),
                                   entities |-> <<>>],
                                  entity_tab),
                       poly_seq_tab),
           chain_to_entity, AllChains(st.models, 1))

\* how often e occurs in the list
Count(list, e) == Cardinality({ i \in 1..Len(list) : list[i] = e })

\* the Entity a chain refers to, if any
Bound(s, at) ==
  IF s.models[at[1]].chains[at[2]].entity = 0 THEN <<>>
  ELSE <<s.entities[s.models[at[1]].chains[at[2]].entity]>>

\* the same Entities (ids, types, sequences), whatever their order in the
\* list, and every chain bound to the same Entity
SameResolution(s1, s2) ==
  /\ Len(s1.entities) = Len(s2.entities)
  /\ \A i \in 1..Len(s1.entities) :
       Count(s1.entities, s1.entities[i]) = Count(s2.entities, s1.entities[i])
  /\ \A i \in 1..Len(AllChains(s1.models, 1)) :
       Bound(s1, AllChains(s1.models, 1)[i]) = Bound(s2, AllChains(s1.models, 1)[i])

\* every iteration of the entity-list loop came before the other iterations
EntityListFirst ==
  \A i, j \in 1..Len(steps) : i < j /\ steps[j] = "entity" => steps[i] = "entity"

\* C6: the entity-list pass, the polymer-sequence pass and the chain-linkage
\* pass are order-insensitive: taken in any order, or interleaved row by
\* row, they leave the same Entities and the same chain-to-entity bindings
\* as the order of structure_from_cif_block.
C6_AnyOrder ==
  pc = "done" => SameResolution(returned[1], InCodeOrder)

\* C6 as amended: once the entity-list pass is over, the polymer-sequence
\* pass and the chain-linkage pass are order-insensitive: interleaved row by
\* row in any order they leave the same Entities and the same
\* chain-to-entity bindings as the order of structure_from_cif_block. The
\* entity-list pass has to come first, as it does in the code: it appends
\* without a search, so it does not commute with the other two.
C6_EntityListFirst ==
  pc = "done" /\ EntityListFirst => SameResolution(returned[1], InCodeOrder)

\* a chain was linked before a polymer-sequence row was read, after the
\* entity list: the Entities are those of the code in another order
C6_Witness ==
  /\ pc = "done"
  /\ EntityListFirst
  /\ \E i, j \in 1..Len(steps) : i < j /\ steps[i] = "link" /\ steps[j] = "poly_seq"
  /\ returned[1].entities # InCodeOrder.entities
  /\ SameResolution(returned[1], InCodeOrder)

(***************************************************************************)
(* Properties of the values of an Atom and of failures                     *)
(***************************************************************************)
\* the loop reads a row
ReadsRow == pc = "atoms" /\ Len(atom_table') = Len(atom_table) + 1

\* the atom the step appended: the last one of the residue under the cursor
NewestAtom ==
  AtCursor(st', model', chain', resi').atoms[
    Len(AtCursor(st', model', chain', resi').atoms)]

\* a coordinate of the row is no number
BadCoordinate(row) ==
  \E cell \in {row.kX, row.kY, row.kZ} :
    cell \notin {"?", "."} /\ \A i \in 1..Len(Numerals) : Numerals[i] # cell

\* C7: the build either completes or fails outright: when Cartn_x, Cartn_y
\* or Cartn_z of an atom row fails to parse, the failure leaves
\* structure_from_cif_block at that row (unless an assert stopped the
\* program at the row before the conversion), no further row of any table
\* is read, and no Structure, in particular not the partly built one, is
\* returned.
C7_NoPartialResult ==
  \A i \in 1..Len(atom_table) :
    BadCoordinate(atom_table[i]) =>
      /\ i = Len(atom_table)
      /\ pc \in {"thrown", "aborted"}
      /\ returned = <<>>
      /\ entity_tab = <<>> /\ poly_seq_tab = <<>> /\ visited = 0

\* the second row of a stream fails to parse: the function was left with a
\* model in the structure, and nothing was returned
C7_Witness ==
  /\ pc = "thrown"
  /\ Len(atom_table) = 2
  /\ BadCoordinate(atom_table[2])
  /\ st.models # <<>>
  /\ returned = <<>>

\* the table has no row for the label
NoRowFor(tab, label) ==
  ~tab.ok \/ \A i \in 1..Len(tab.rows) : tab.rows[i][1] # label

\* C8: chain linkage never raises: with the _struct_asym table absent, or
\* with no row for a chain's label, the build goes on to return the
\* Structure, and every chain visited whose label has no row has an unset
\* entity reference; with the table absent that is every chain.
C8_LinkageNeverRaises ==
  "struct_asym" \in finished =>
    /\ pc \in {"resolve", "done"}
    /\ pc = "done" =>
         visited = Len(AllChains(st.models, 1)) /\ returned = <<st>>
    /\ \A i \in 1..visited :
         LET at == AllChains(st.models, 1)[i]
         IN NoRowFor(chain_to_entity, st.models[at[1]].chains[at[2]].name)
              => st.models[at[1]].chains[at[2]].entity = 0

\* the build is over, the table has a row for one chain and none for
\* another: the first is bound, the second is not
C8_Witness ==
  /\ pc = "done"
  /\ chain_to_entity.ok
  /\ \E i, j \in 1..Len(AllChains(st.models, 1)) :
       LET a == AllChains(st.models, 1)[i]
           b == AllChains(st.models, 1)[j]
       IN /\ NoRowFor(chain_to_entity, st.models[a[1]].chains[a[2]].name)
          /\ returned[1].models[a[1]].chains[a[2]].entity = 0
          /\ ~NoRowFor(chain_to_entity, st.models[b[1]].chains[b[2]].name)
          /\ returned[1].models[b[1]].chains[b[2]].entity # 0

\* the value of a cell of _atom_site_anisotrop, null counting as 0.0
CellValue(cell) ==
  IF cell \in {"?", "."} THEN 0
  ELSE (CHOOSE i \in 1..Len(Numerals) : Numerals[i] = cell) - 1

\* the rows of the anisotropic table with the id
AnisoRowsOf(id) == { i \in 1..Len(aniso_tab) : aniso_tab[i][1] = id }

\* the six components of an Atom, in the order of the columns of the table
Components(atom) ==
  <<atom.u11, atom.u22, atom.u33, atom.u12, atom.u13, atom.u23>>

\* C9: the atom of a row whose id is a key of the anisotropic map has
\* u11, u22, u33, u12, u13, u23 set to the six values of the row of the
\* table with that id, a null cell counting as 0.0; the atom of any other
\* row keeps the unset value, which is not 0.0, in all six. Every row of
\* the table is a key of the map; without a table no atom has a component
\* set.
C9_Anisotropic ==
  [][ReadsRow /\ pc' = "atoms" =>
       /\ DOMAIN aniso_map = { aniso_tab[i][1] : i \in 1..Len(aniso_tab) }
       /\ IF AnisoRowsOf(NextRow.kId) # {}
          THEN LET last == CHOOSE i \in AnisoRowsOf(NextRow.kId) :
                             \A j \in AnisoRowsOf(NextRow.kId) : j <= i
               IN Components(NewestAtom) =
                    [k \in 1..6 |-> CellValue(aniso_tab[last][k + 1])]
          ELSE /\ Components(NewestAtom) = [k \in 1..6 |-> NoAniso]
               /\ NoAniso # 0]_vars

\* a table row with null cells for id 1, then the atoms of rows with id 1
\* and id 2: the first has the six values, zeros for the nulls, the second
\* has none
C9_Witness ==
  /\ RowsDone
  /\ Len(aniso_tab) = 1
  /\ aniso_tab[1][1] = "1"
  /\ aniso_tab[1][3] = "?"
  /\ Len(atom_table) = 2
  /\ atom_table[1].kId = "1"
  /\ atom_table[2].kId = "2"
  /\ resi # 0
  /\ Len(AtCursor(st, model, chain, resi).atoms) = 2
  /\ Components(AtCursor(st, model, chain, resi).atoms[1]) = <<0, 0, 3, 0, 5, 6>>
  /\ Components(AtCursor(st, model, chain, resi).atoms[2])
       = <<NoAniso, NoAniso, NoAniso, NoAniso, NoAniso, NoAniso>>

\* the cells the conversions of lines 136-142 need are numbers or null
Converts(row) ==
  /\ ~BadCoordinate(row)
  /\ \A cell \in {row.kOcc, row.kBiso, row.kCharge} :
       cell \in {"?", "."} \/ \E i \in 1..Len(Numerals) : Numerals[i] = cell

\* C10: null coercion: a null occupancy cell gives occ = 1.0, a null
\* B_iso_or_equiv cell gives b_iso = 50.0, a null pdbx_formal_charge cell
\* gives charge = 0, a cell that is not null gives its value, and a null
\* in any of the three cells raises nothing.
C10_NullCoercion ==
  [][ReadsRow /\ Converts(NextRow) =>
       /\ pc' # "thrown"
       /\ pc' = "atoms" =>
            /\ NewestAtom.occ = IF NextRow.kOcc \in {"?", "."} THEN 1
                                ELSE CellValue(NextRow.kOcc)
            /\ NewestAtom.b_iso = IF NextRow.kBiso \in {"?", "."} THEN 50
                                  ELSE CellValue(NextRow.kBiso)
            /\ NewestAtom.charge = IF NextRow.kCharge \in {"?", "."} THEN 0
                                   ELSE CellValue(NextRow.kCharge)]_vars

\* a row with the three cells null, after a row with numbers in them
C10_Witness ==
  /\ RowsDone
  /\ Len(atom_table) = 2
  /\ \A cell \in {atom_table[1].kOcc, atom_table[1].kBiso, atom_table[1].kCharge} :
       cell \notin {"?", "."}
  /\ \A cell \in {atom_table[2].kOcc, atom_table[2].kBiso, atom_table[2].kCharge} :
       cell \in {"?", "."}
  /\ resi # 0
  /\ Len(AtCursor(st, model, chain, resi).atoms) = 2
  /\ AtCursor(st, model, chain, resi).atoms[1].occ = 0
  /\ AtCursor(st, model, chain, resi).atoms[1].b_iso = 2
  /\ AtCursor(st, model, chain, resi).atoms[1].charge = 1
  /\ AtCursor(st, model, chain, resi).atoms[2].occ = 1
  /\ AtCursor(st, model, chain, resi).atoms[2].b_iso = 50
  /\ AtCursor(st, model, chain, resi).atoms[2].charge = 0

(***************************************************************************)
\* number of atoms of a structure
TotalAtoms(s) ==
  SumSeq([m \in 1..Len(s.models) |->
    SumSeq([c \in 1..Len(s.models[m].chains) |->
      SumSeq([r \in 1..Len(s.models[m].chains[c].residues) |->
        Len(s.models[m].chains[c].residues[r].atoms)])])])

\* the alternate-location cell or the insertion-code cell of the row is not
\* one character long
BadFormat(row) == size(row.kAltId) # 1 \/ size(row.kInsCode) # 1

\* C11: format precondition: an atom row whose label_alt_id cell or whose
\* pdbx_PDB_ins_code cell is not exactly one character long stops the build
\* with a precondition violation, and its atom is not appended, whether the
\* row starts a residue or continues the open one.
C11_FormatPrecondition ==
  [][ReadsRow /\ BadFormat(NextRow) =>
       /\ pc' = "aborted"
       /\ TotalAtoms(st') = TotalAtoms(st)]_vars

\* s is the beginning of t
IsPrefix(s, t) == Len(s) <= Len(t) /\ SubSeq(t, 1, Len(s)) = s

\* every residue the structure had keeps its place and its atoms, in their
\* order, at the beginning of its list of atoms
AtomsKept ==
  \A m \in 1..Len(st.models) :
    \A c \in 1..Len(st.models[m].chains) :
      \A r \in 1..Len(st.models[m].chains[c].residues) :
        /\ m <= Len(st'.models)
        /\ c <= Len(st'.models[m].chains)
        /\ r <= Len(st'.models[m].chains[c].residues)
        /\ IsPrefix(AtCursor(st, m, c, r).atoms, AtCursor(st', m, c, r).atoms)

\* C12: atoms keep the row order: every atom row the loop completes gives
\* exactly one Atom, so the structure holds as many atoms as rows were read,
\* and the Atom goes to the end of the list of its Residue, behind the atoms
\* of the earlier rows, which stay as they are.
C12_RowOrder ==
  /\ [](RowsDone => TotalAtoms(st) = Len(atom_table))
  /\ [][ReadsRow /\ pc' = "atoms" =>
          /\ AtomsKept
          /\ TotalAtoms(st') = TotalAtoms(st) + 1
          /\ NewestAtom = MakeAtom(aniso_map, NextRow).atom]_vars

\* three rows of residue (1, ALA) that differ in their cells gave one
\* Residue with their three atoms in the order of the rows
C12_Witness ==
  /\ RowsDone
  /\ Len(atom_table) = 3
  /\ \A i, j \in 1..3 :
       /\ SameResidue(atom_table[i], atom_table[j])
       /\ i # j => MakeAtom(aniso_map, atom_table[i]).atom
                     # MakeAtom(aniso_map, atom_table[j]).atom
  /\ SeqId(atom_table[1]) = 1
  /\ atom_table[1].kCompId = "ALA"
  /\ Len(st.models) = 1
  /\ Len(st.models[1].chains) = 1
  /\ Len(st.models[1].chains[1].residues) = 1
  /\ AtCursor(st, 1, 1, 1).atoms
       = [i \in 1..3 |-> MakeAtom(aniso_map, atom_table[i]).atom]

\* the cursors when the row reaches line 120
Selected(row) ==
  SelectChain(SelectModel(Builder(st, model, chain, resi), row), row)

\* the row takes the else branch of line 130: it continues the open residue
ContinuesResidue(row) == ~ResidueChanges(Selected(row), row)

\* C15: the sanity assertion of the branch that continues a residue always
\* holds: for every stream of atom rows, the author sequence number and the
\* insertion code of a row that continues the open Residue are the ones the
\* Residue has.
C15_SanityAssertion ==
  [][ReadsRow /\ ContinuesResidue(NextRow) =>
       /\ Residues(Selected(NextRow))[Selected(NextRow).resi].auth_seq_id
            = AuthSeqId(NextRow)
       /\ Residues(Selected(NextRow))[Selected(NextRow).resi].ins_code = InsCode(NextRow)]_vars

\* the cursors of the next state point into the structure of the next state
CursorsInside ==
  /\ model' \in 1..Len(st'.models)
  /\ chain' \in 1..Len(st'.models[model'].chains)
  /\ resi' \in 1..Len(st'.models[model'].chains[chain'].residues)

\* the step changed nothing outside the residue under the cursors: the other
\* models, the other chains of the model and the other residues of the chain
\* are the ones the structure had
OthersUntouched ==
  /\ \A m \in 1..Len(st.models) : m # model' => st'.models[m] = st.models[m]
  /\ model' <= Len(st.models) =>
       \A c \in 1..Len(st.models[model'].chains) :
         c # chain' =>
           st'.models[model'].chains[c] = st.models[model'].chains[c]
  /\ (model' <= Len(st.models) /\ chain' <= Len(st.models[model'].chains)) =>
       \A r \in 1..Len(st.models[model'].chains[chain'].residues) :
         r # resi' =>
           AtCursor(st', model', chain', r) = AtCursor(st, model', chain', r)

\* C16: cursor consistency: whenever the loop appends an atom, the current
\* Residue is one of the current Chain, the current Chain is one of the
\* current Model, the name of the Model is the model id of the row and the
\* label of the Chain is the chain label of the row; the atom goes to that
\* Residue and nothing else changes, so a cursor of the previous model or
\* chain is never used and equal chain labels in two models are two Chains.
C16_CursorConsistency ==
  [][ReadsRow /\ pc' = "atoms" =>
       /\ CursorsInside
       /\ st'.models[model'].name = NextRow.kModelNum
       /\ st'.models[model'].chains[chain'].name = NextRow.kAsymId
       /\ NewestAtom = MakeAtom(aniso_map, NextRow).atom
       /\ OthersUntouched]_vars

\* rows of chain A of model 1, of chain A of model 2 and of chain A of
\* model 1 again: two Chains named A, the first with the atoms of the first
\* and the third row, the second with the atom of the second row
C16_Witness ==
  /\ RowsDone
  /\ Len(atom_table) = 3
  /\ \A i \in 1..3 : atom_table[i].kAsymId = "A"
  /\ <<atom_table[1].kModelNum, atom_table[2].kModelNum,
       atom_table[3].kModelNum>> = <<"1", "2", "1">>
  /\ Len(st.models) = 2
  /\ \A m \in 1..2 :
       /\ Len(st.models[m].chains) = 1
       /\ st.models[m].chains[1].name = "A"
  /\ ChainAtoms(st.models[1].chains[1]) = 2
  /\ ChainAtoms(st.models[2].chains[1]) = 1
  /\ <<model, chain>> = <<1, 1>>

(***************************************************************************)
\* the first row of the table for the label
FirstRowFor(tab, label) ==
  tab.rows[CHOOSE i \in 1..Len(tab.rows) :
             /\ tab.rows[i][1] = label
             /\ \A j \in 1..(i - 1) : tab.rows[j][1] # label]

\* the chain at position at = <<model, chain>>
ChainAt(s, at) == s.models[at[1]].chains[at[2]]

\* C17: chain linkage runs after the atom loop and the other passes and
\* visits every chain exactly once; once it has visited a chain whose label
\* has a row in _struct_asym, the chain refers to an Entity of the list of
\* the structure whose id is the entity_id of that row, and chains of
\* different models with the same label refer to the same Entity.
C17_ChainLinkage ==
  /\ visited > 0 => pc \in {"resolve", "done"} /\ finished = Resolution
  /\ Count(steps, "link") = visited
  /\ visited <= Len(AllChains(st.models, 1))
  /\ pc = "done" => visited = Len(AllChains(st.models, 1))
  /\ \A i \in 1..visited :
       LET ch == ChainAt(st, AllChains(st.models, 1)[i])
       IN ~NoRowFor(chain_to_entity, ch.name) =>
            /\ ch.entity \in 1..Len(st.entities)
            /\ st.entities[ch.entity].id
                 = as_string(FirstRowFor(chain_to_entity, ch.name)[2])
  /\ \A i, j \in 1..visited :
       LET c1 == ChainAt(st, AllChains(st.models, 1)[i])
           c2 == ChainAt(st, AllChains(st.models, 1)[j])
       IN c1.name = c2.name => c1.entity = c2.entity

\* chain A of model 1 and chain A of model 2, a _struct_asym row for A whose
\* entity_id no Entity had: the linkage appended the Entity and both chains
\* refer to it
C17_Witness ==
  /\ pc = "done"
  /\ Len(st.models) = 2
  /\ \A m \in 1..2 :
       /\ Len(st.models[m].chains) = 1
       /\ st.models[m].chains[1].name = "A"
       /\ st.models[m].chains[1].entity = 1
  /\ entity_tab = <<>>
  /\ poly_seq_tab = <<>>
  /\ chain_to_entity.ok
  /\ Len(chain_to_entity.rows) = 1
  /\ Len(st.entities) = 1
  /\ st.entities[1].id = chain_to_entity.rows[1][2]
  /\ visited = 2

\* _entity lists every id at most once
EntityIdsOnce ==
  \A i, j \in 1..Len(entity_tab) :
    entity_tab[i][1] = entity_tab[j][1] => i = j

\* the (position, monomer) pairs of the rows of _entity_poly_seq read so far
\* that name the entity, in row order
RECURSIVE PairsFor(_, _)
PairsFor(rows, id) ==
  IF rows = <<>> THEN <<>>
  ELSE LET row == rows[Len(rows)]
           rest == PairsFor(SubSeq(rows, 1, Len(rows) - 1), id)
       IN IF row[1] = id
          THEN Append(rest, <<IF row[2] \in {"?", "."} THEN -1
                              ELSE CellValue(row[2]), row[3]>>)
          ELSE rest

\* C18: entity ids are unique: when _entity lists every id at most once, no
\* two Entities of the structure have the same id, whatever _entity_poly_seq
\* and _struct_asym hold, ids that no _entity row announced included; and
\* the sequence of an Entity is the (position, monomer) pairs of the
\* _entity_poly_seq rows with its id, one pair a row, in row order.
C18_EntityIdsUnique ==
  EntityIdsOnce =>
    /\ \A i, j \in 1..Len(st.entities) :
         st.entities[i].id = st.entities[j].id => i = j
    /\ \A i \in 1..Len(st.entities) :
         st.entities[i].sequence = PairsFor(poly_seq_tab, st.entities[i].id)
    /\ SumSeq([i \in 1..Len(st.entities) |-> Len(st.entities[i].sequence)])
         = Len(poly_seq_tab)

\* _entity has a row for entity 1 only, _entity_poly_seq two rows for
\* entity 2: the structure has both Entities, the second with the two pairs
\* in the order of the rows
C18_Witness ==
  /\ pc = "done"
  /\ Len(entity_tab) = 1
  /\ entity_tab[1][1] = "1"
  /\ poly_seq_tab = << <<"2", "1", "ALA">>, <<"2", "?", "ALA">> >>
  /\ Len(st.entities) = 2
  /\ st.entities[1].id = "1"
  /\ st.entities[1].sequence = <<>>
  /\ st.entities[2].id = "2"
  /\ st.entities[2].sequence = << <<1, "ALA">>, <<-1, "ALA">> >>

(***************************************************************************)
(* sprintf.hpp: to_str(double), to_str(float), to_str_prec<Prec>(double)   *)
(*                                                                         *)
(* A number is its sign, its significant decimal digits d1 d2 .. dn (d1    *)
(* not 0, dn not 0, none for 0.0) and the decimal exponent of d1:          *)
(* d1.d2..dn * 10^exp.  A text is a sequence of characters.  The numbers   *)
(* formatted have digits 1 and 9 only, so no conversion meets a tie and    *)
(* the rounding mode of the library does not matter.                       *)
(***************************************************************************)
MaxDigits == 10
MaxExp == 9

Repeat(x, n) == [i \in 1..n |-> x]

Mantissas ==
  { m \in { Repeat(a, i) \o Repeat(b, j) :
              a \in {1, 9}, b \in {1, 9}, i \in 1..MaxDigits, j \in 0..MaxDigits } :
      Len(m) <= MaxDigits }

Doubles ==
  {Zero} \cup { [neg |-> s, digs |-> m, exp |-> e] :
                  s \in BOOLEAN, m \in Mantissas, e \in (-MaxExp)..MaxExp }

DigitChar(n) == Numerals[n + 1]
DigitVal(c) == (CHOOSE i \in 1..10 : Numerals[i] = c) - 1

RECURSIVE StripZeros(_)
StripZeros(ds) ==
  IF ds # <<>> /\ ds[Len(ds)] = 0
  THEN StripZeros(SubSeq(ds, 1, Len(ds) - 1))
  ELSE ds

\* the number with the digits ds, the first of them not 0
Normal(neg, ds, e) ==
  IF StripZeros(ds) = <<>> THEN [neg |-> neg, digs |-> <<>>, exp |-> 0]
  ELSE [neg |-> neg, digs |-> StripZeros(ds), exp |-> e]

\* the digits of the number ds + 1; one digit more when ds is all nines
RECURSIVE Incr(_)
Incr(ds) ==
  IF ds = <<>> THEN <<1>>
  ELSE IF ds[Len(ds)] = 9
       THEN Append(Incr(SubSeq(ds, 1, Len(ds) - 1)), 0)
       ELSE [ds EXCEPT ![Len(ds)] = @ + 1]

\* d rounded to p >= 1 significant digits
RoundSig(d, p) ==
  IF Len(d.digs) <= p THEN d
  ELSE LET kept == SubSeq(d.digs, 1, p)
           r == IF d.digs[p + 1] >= 5 THEN Incr(kept) ELSE kept
       IN IF Len(r) > p THEN Normal(d.neg, r, d.exp + 1)
          ELSE Normal(d.neg, r, d.exp)

\* d rounded to f >= 0 digits after the decimal point; the sign stays
RoundFrac(d, f) ==
  LET p == d.exp + 1 + f
  IN IF d.digs = <<>> THEN d
     ELSE IF p >= 1 THEN RoundSig(d, p)
     ELSE IF p = 0 /\ d.digs[1] >= 5
          THEN [neg |-> d.neg, digs |-> <<1>>, exp |-> -f]
          ELSE [neg |-> d.neg, digs |-> <<>>, exp |-> 0]

\* the digit of d that counts 10^place
DigitAt(d, place) ==
  LET i == d.exp - place + 1
  IN IF i \in 1..Len(d.digs) THEN d.digs[i] ELSE 0

Sign(d) == IF d.neg THEN <<"-">> ELSE <<>>

\* d, which has no more than f digits after the point, in the style of %f
FixedText(d, f) ==
  LET top == IF d.exp > 0 THEN d.exp ELSE 0
      int == [k \in 1..(top + 1) |-> DigitChar(DigitAt(d, top + 1 - k))]
      frac == [k \in 1..f |-> DigitChar(DigitAt(d, -k))]
  IN Sign(d) \o int \o (IF f > 0 THEN <<".">> \o frac ELSE <<>>)

\* d in the style of %f with the trailing zeros and a trailing point removed
ShortFixedText(d) ==
  FixedText(d, IF Len(d.digs) - 1 - d.exp > 0
               THEN Len(d.digs) - 1 - d.exp ELSE 0)

\* the exponent part of the style of %e: a sign and two digits at least
ExpText(x) ==
  LET a == IF x < 0 THEN -x ELSE x
  IN <<"e", IF x < 0 THEN "-" ELSE "+",
       DigitChar(a \div 10), DigitChar(a % 10)>>

\* d in the style of %e with the trailing zeros and a trailing point removed
SciText(d) ==
  LET ds == IF d.digs = <<>> THEN <<0>> ELSE d.digs
  IN Sign(d) \o <<DigitChar(ds[1])>>
     \o (IF Len(ds) > 1
         THEN <<".">> \o [k \in 1..(Len(ds) - 1) |-> DigitChar(ds[k + 1])]
         ELSE <<>>)
     \o ExpText(d.exp)

\* gstb_sprintf(buf, "%.*f", prec, d)
sprintf_f(prec, d) == FixedText(RoundFrac(d, prec), prec)

\* gstb_sprintf(buf, "%.<prec>g", d): the style of %e when the exponent of
\* the rounded number is below -4 or not below the precision, else of %f
sprintf_g(prec, d) ==
  LET p == IF prec = 0 THEN 1 ELSE prec
      r == RoundSig(d, p)
  IN IF r.exp < -4 \/ r.exp >= p THEN SciText(r) ELSE ShortFixedText(r)

\* to_str(double) with the format of to_str(float)
to_str_double_6g(d) == sprintf_g(6, d)

\* line 25
to_str_double(d) == sprintf_g(9, d)

\* line 31
to_str_float(d) == sprintf_g(6, d)

\* d > -1e8 && d < 1e8
InFixedRange(d) == d.digs = <<>> \/ d.exp < 8

\* lines 39-40
to_str_prec(Prec, d) ==
  IF InFixedRange(d) THEN sprintf_f(Prec, d) ELSE sprintf_g(6, d)

\* the builder takes no part in a call of a formatter
BuilderIdle ==
  UNCHANGED <<pc, ndebug, aniso_tab, aniso_map, atom_table, st, model, chain,
              resi, entity_tab, poly_seq_tab, chain_to_entity, finished,
              visited, steps, returned>>

\* sprintf wrote the text and its terminating NUL into char buf[n], and
\* the function returned std::string(buf, len).  Writing past the end of
\* buf is undefined: the call may return the text all the same, or the
\* process may be stopped for the smashed stack.
Returns(fn, prec, text, n) ==
  /\ fmt.pc = "call"
  /\ \/ fmt' = [fmt EXCEPT !.pc = "returned", !.fn = fn, !.prec = prec,
                           !.text = text, !.written = Len(text) + 1,
                           !.buf = n]
     \/ /\ Len(text) + 1 > n
        /\ fmt' = [fmt EXCEPT !.pc = "smashed", !.fn = fn, !.prec = prec,
                              !.written = Len(text) + 1, !.buf = n]
  /\ BuilderIdle

\* lines 23-27
ToStrDouble == Returns("to_str_double", 9, to_str_double(fmt.d), 24)

\* lines 29-33
ToStrFloat == Returns("to_str_float", 6, to_str_float(fmt.d), 16)

\* lines 35-42
ToStrPrec(Prec) == Returns("to_str_prec", Prec, to_str_prec(Prec, fmt.d), 16)

\* a formatter is called with a number
InitFormat ==
  /\ pc = "aniso"
  /\ ndebug = FALSE
  /\ aniso_tab = <<>>
  /\ aniso_map = EmptyMap
  /\ atom_table = <<>>
  /\ st = [models |-> <<>>, entities |-> <<>>]
  /\ model = 0
  /\ chain = 0
  /\ resi = 0
  /\ entity_tab = <<>>
  /\ poly_seq_tab = <<>>
  /\ chain_to_entity = NoTable
  /\ finished = {}
  /\ visited = 0
  /\ steps = <<>>
  /\ returned = <<>>
  /\ fmt \in { [NoCall EXCEPT !.pc = "call", !.d = d] : d \in Doubles }

NextFormat ==
  \/ ToStrDouble
  \/ ToStrFloat
  \/ \E Prec \in 0..6 : ToStrPrec(Prec)

SpecFormat == InitFormat /\ [][NextFormat]_vars

(***************************************************************************)
\* position of the first c in the text, 0 when there is none
IndexOf(t, c) ==
  IF \E i \in 1..Len(t) : t[i] = c
  THEN CHOOSE i \in 1..Len(t) : t[i] = c /\ \A j \in 1..(i - 1) : t[j] # c
  ELSE 0

\* number of characters after the decimal point of a text without exponent
FractionDigits(t) == IF IndexOf(t, ".") = 0 THEN 0 ELSE Len(t) - IndexOf(t, ".")

\* the value of a text of decimal digits
RECURSIVE NatOf(_)
NatOf(t) ==
  IF t = <<>> THEN 0
  ELSE 10 * NatOf(SubSeq(t, 1, Len(t) - 1)) + DigitVal(t[Len(t)])

\* the number a text denotes, as strtod reads it
ParseText(t) ==
  LET neg == t # <<>> /\ t[1] = "-"
      body == IF neg THEN Tail(t) ELSE t
      e == IndexOf(body, "e")
      mant == IF e = 0 THEN body ELSE SubSeq(body, 1, e - 1)
      expo == IF e = 0 THEN 0
              ELSE (IF body[e + 1] = "-" THEN -1 ELSE 1)
                   * NatOf(SubSeq(body, e + 2, Len(body)))
      p == IndexOf(mant, ".")
      int == IF p = 0 THEN mant ELSE SubSeq(mant, 1, p - 1)
      frac == IF p = 0 THEN <<>> ELSE SubSeq(mant, p + 1, Len(mant))
      all == [k \in 1..(Len(int) + Len(frac)) |-> DigitVal((int \o frac)[k])]
      lz == IF \A k \in 1..Len(all) : all[k] = 0 THEN Len(all)
            ELSE (CHOOSE k \in 1..Len(all) :
                    all[k] # 0 /\ \A j \in 1..(k - 1) : all[j] = 0) - 1
  IN Normal(neg, SubSeq(all, lz + 1, Len(all)), Len(int) - 1 - lz + expo)

\* the magnitude of d is above 1e8
Exceeds1e8(d) == d.exp > 8 \/ (d.exp = 8 /\ d.digs # <<1>>)

\* a call of the formatter fn is over, one way or the other
Called(fn) == fmt.pc \in {"returned", "smashed"} /\ fmt.fn = fn

\* C13: fixed-precision formatting: to_str_prec<Prec>(d), Prec from 0 to 6,
\* gives a text with exactly Prec digits after the decimal point, and falls
\* back to %g only when the magnitude of d exceeds 1e8; to_str_prec<3>(x)
\* has exactly 3 digits after the point for every |x| < 1e8.
C13_FixedPrecision ==
  (Called("to_str_prec") /\ ~Exceeds1e8(fmt.d)) =>
    /\ fmt.pc = "returned"
    /\ IndexOf(fmt.text, "e") = 0
    /\ FractionDigits(fmt.text) = fmt.prec

\* C19: buffer bound: the text of to_str_prec<Prec>(d) and its terminating
\* NUL fit the 16 bytes of its buffer (sign, integer digits, point, Prec
\* digits and NUL are 16 at most when -1e8 < d < 1e8), the text of
\* to_str(double) fits 24 bytes and the text of to_str(float) 16 bytes.
C19_BufferBound ==
  fmt.pc \in {"returned", "smashed"} => fmt.written <= fmt.buf

\* d is 0.0 or its magnitude is between 1e-8 and 1e8
InRoundTripRange(d) ==
  \/ d.digs = <<>>
  \/ d.exp \in (-8)..7
  \/ d.exp = 8 /\ d.digs = <<1>>

\* a call of to_str(double) or of to_str(float) for a number of that range
\* has returned; fmt.prec is the number of significant digits of its format
GeneralCall ==
  /\ fmt.pc = "returned"
  /\ fmt.fn \in {"to_str_double", "to_str_float"}
  /\ InRoundTripRange(fmt.d)

\* the shorter of two texts, the first when they are equally long
Shorter(s, t) == IF Len(t) < Len(s) THEN t ELSE s

\* C14: formatter round trip, as stated: for every double of magnitude 1e-8
\* to 1e8, negative numbers and zero included, the text of to_str(double)
\* parses to the value rounded to 9 significant digits (6 for to_str(float)),
\* and the text is the shorter of the fixed and the scientific notation.
C14_ShorterNotation ==
  GeneralCall =>
    /\ ParseText(fmt.text) = RoundSig(fmt.d, fmt.prec)
    /\ Len(fmt.text)
         = Len(Shorter(ShortFixedText(RoundSig(fmt.d, fmt.prec)),
                       SciText(RoundSig(fmt.d, fmt.prec))))

\* C14, amended: the text parses to the value rounded to 9 significant
\* digits (6 for to_str(float)); it is in scientific notation exactly when
\* the decimal exponent of the rounded value is below -4 or not below the
\* number of significant digits, and in fixed notation otherwise, which is
\* not always the shorter one.
C14_RoundTrip ==
  GeneralCall =>
    /\ ParseText(fmt.text) = RoundSig(fmt.d, fmt.prec)
    /\ IndexOf(fmt.text, "e") # 0
         <=> \/ RoundSig(fmt.d, fmt.prec).exp < -4
             \/ RoundSig(fmt.d, fmt.prec).exp >= fmt.prec

\* to_str(double) of a negative number with ten significant digits returned
\* a text that parses to another number: the value rounded to nine digits
C14_Witness ==
  /\ GeneralCall
  /\ fmt.fn = "to_str_double"
  /\ fmt.d.neg
  /\ Len(fmt.d.digs) = 10
  /\ ParseText(fmt.text) # fmt.d
  /\ ParseText(fmt.text) = RoundSig(fmt.d, 9)
  /\ Len(ParseText(fmt.text).digs) = 9

====
